---- MODULE Spec2Model ----
(***************************************************************************)
(* Model of the clinical note writer: the patient directory service        *)
(* (src/lib/firebase/patient-service.ts) and the note-generation endpoint  *)
(* (src/app/api/generate-note/route.ts).                                   *)
(*                                                                         *)
(* JavaScript values that may be missing are modelled as tagged records:   *)
(* Undefined, JsNull, Str(s).  Strings are TLA+ strings, so trimming,      *)
(* concatenation and substring search operate on the real characters.      *)
(***************************************************************************)
EXTENDS Integers, Sequences, FiniteSets, TLC

VARIABLES
    store,      \* Firestore "patients" collection: document id -> document
    clock,      \* server time; serverTimestamp() reads it at each write
    ret,        \* outcome of the last completed patient-service call
    calls,      \* updatePatient calls in flight: slot -> call state
    apiKey,     \* process.env.GOOGLE_GEMINI_API_KEY
    pc,         \* where the POST handler of the current request stands
    body,       \* the JSON body of the current request
    prompt,     \* the prompt composed for the current request
    genCalls,   \* generateContent invocations made for the current request
    generated,  \* the text response.text() returned for the current request
    resp,       \* the response to the current request
    time,        \* browser time in ticks; setTimeout deadlines are read off it
    authUser,   \* Firebase auth: the uid signed in, or "none"
    ctxUser,    \* AuthProvider state user: the uid of the profile, or "none"
    sessionTimer, \* AuthProvider state sessionTimer: a timer id, 0 for null
    timers,     \* every setTimeout made: id -> deadline and pending/fired/cleared
    notices,    \* auth state changes not yet delivered to the listener
    loads,      \* listener runs in flight: at getUserProfile or at signOut
    profiles,   \* the "users" collection: the uids that have a profile
    signup,     \* where authService.signUp stands, and for whom
    mounted,    \* the provider is mounted (its effect has not been cleaned up)
    lastActivity, \* the time of the last user-activity event
    session     \* the signed-in session whose profile the listener loaded

svcVars == <<store, clock, ret, calls>>
noteVars == <<apiKey, pc, body, prompt, genCalls, generated, resp>>
authVars == <<time, authUser, ctxUser, sessionTimer, timers, notices, loads,
              profiles, signup, mounted, lastActivity, session>>
vars == <<svcVars, noteVars, authVars>>

(***************************************************************************)
(* Bounds of the model.                                                    *)
(***************************************************************************)
\* the number of writes (setDoc, updateDoc) the store accepts in a run
MaxClock == 3
\* the number of ticks of browser time a run covers
MaxTime == 3
\* the number of setTimeout calls a run makes
MaxTimers == 2
\* the number of auth state changes that may await delivery to the listener
MaxNotices == 1

(***************************************************************************)
(* JavaScript values.                                                      *)
(***************************************************************************)
Undefined == [t |-> "undefined"]
JsNull == [t |-> "null"]
Str(s) == [t |-> "string", v |-> s]
IsStr(x) == x.t = "string"
\* JavaScript truthiness: undefined, null and "" are falsy, objects and
\* functions are truthy
Truthy(x) ==
    CASE x.t = "string" -> x.v # ""
      [] x.t \in {"undefined", "null"} -> FALSE
      [] OTHER -> TRUE

(***************************************************************************)
(* String helpers (String.prototype.trim / includes / toLowerCase).        *)
(***************************************************************************)
IsSpace(c) == c \in {" ", "\t", "\n", "\r"}

RECURSIVE TrimStart(_)
TrimStart(s) ==
    IF Len(s) = 0 THEN s
    ELSE IF IsSpace(SubSeq(s, 1, 1)) THEN TrimStart(SubSeq(s, 2, Len(s)))
    ELSE s

RECURSIVE TrimEnd(_)
TrimEnd(s) ==
    IF Len(s) = 0 THEN s
    ELSE IF IsSpace(SubSeq(s, Len(s), Len(s))) THEN TrimEnd(SubSeq(s, 1, Len(s) - 1))
    ELSE s

Trim(s) == TrimEnd(TrimStart(s))

StartsWith(p, s) == Len(s) <= Len(p) /\ SubSeq(p, 1, Len(s)) = s
EndsWith(p, s) == Len(s) <= Len(p) /\ SubSeq(p, Len(p) - Len(s) + 1, Len(p)) = s
\* String.prototype.includes
Includes(p, s) ==
    \E i \in 1..(Len(p) - Len(s) + 1) : SubSeq(p, i, i + Len(s) - 1) = s

\* String.prototype.indexOf: -1 when s does not occur in p
IndexOf(p, s) ==
    LET hits == {i \in 1..(Len(p) - Len(s) + 1) : SubSeq(p, i, i + Len(s) - 1) = s}
    IN IF hits = {} THEN -1
       ELSE (CHOOSE i \in hits : \A j \in hits : i <= j) - 1

UpperChars == "ABCDEFGHIJKLMNOPQRSTUVWXYZ"
LowerChars == "abcdefghijklmnopqrstuvwxyz"
LowerOf ==
    [c \in {SubSeq(UpperChars, i, i) : i \in 1..Len(UpperChars)} |->
        LET i == CHOOSE j \in 1..Len(UpperChars) : SubSeq(UpperChars, j, j) = c
        IN SubSeq(LowerChars, i, i)]
LowerChar(c) == IF c \in DOMAIN LowerOf THEN LowerOf[c] ELSE c

RECURSIVE ToLowerCase(_)
ToLowerCase(s) ==
    IF Len(s) = 0 THEN s
    ELSE LowerChar(SubSeq(s, 1, 1)) \o ToLowerCase(SubSeq(s, 2, Len(s)))

\* Firestore orders strings by their UTF-8 bytes; for ASCII text this is the
\* position of each character in the ASCII table (printable characters).
AsciiChars == " !\"#$%&'()*+,-./0123456789:;<=>?@ABCDEFGHIJKLMNOPQRSTUVWXYZ[\\]^_abcdefghijklmnopqrstuvwxyz{|}~"
RankOf ==
    [c \in {SubSeq(AsciiChars, i, i) : i \in 1..Len(AsciiChars)} |->
        CHOOSE i \in 1..Len(AsciiChars) : SubSeq(AsciiChars, i, i) = c]
CharRank(c) == IF c \in DOMAIN RankOf THEN RankOf[c] ELSE 0

RECURSIVE StrLess(_, _)
StrLess(a, b) ==
    IF Len(b) = 0 THEN FALSE
    ELSE IF Len(a) = 0 THEN TRUE
    ELSE LET ca == CharRank(SubSeq(a, 1, 1))
             cb == CharRank(SubSeq(b, 1, 1))
         IN IF ca # cb THEN ca < cb
            ELSE StrLess(SubSeq(a, 2, Len(a)), SubSeq(b, 2, Len(b)))

(***************************************************************************)
(* Patient directory service: inputs.                                      *)
(***************************************************************************)
Users == {"u1", "u2"}
\* user ids a caller may pass, the empty string included
CallerIds == Users \cup {""}
\* document ids; the last one is never handed out, so that an id without a
\* document always exists
PatientIds == {1, 2, 3}
UnusedId == 3
\* difference between the client's clock (new Date()) and the server's
ClockSkews == {0, 1}

NoFields == [name |-> Undefined, mrn |-> Undefined, dob |-> Undefined, gender |-> Undefined]

CreateInputs ==
    { [name |-> Str("  Jane Doe  "), mrn |-> Undefined, dob |-> Str("  "), gender |-> Str("")],
      [name |-> Str("bob"), mrn |-> Str(" M1 "), dob |-> Str("1990-01-01"), gender |-> Str("male")],
      [NoFields EXCEPT !.name = Str("   ")],
      NoFields }

NoUpdates ==
    [name |-> Undefined, mrn |-> Undefined, dob |-> Undefined,
     gender |-> Undefined, status |-> Undefined]

UpdateInputs ==
    { [NoUpdates EXCEPT !.name = Str(" Al "), !.dob = Str(""), !.gender = Str("other")],
      [NoUpdates EXCEPT !.name = Str("  "), !.mrn = Str("M2 "), !.gender = Str("")],
      [NoUpdates EXCEPT !.mrn = JsNull] }

NoFilters ==
    [searchTerm |-> Undefined, status |-> Undefined,
     sortBy |-> Undefined, sortOrder |-> Undefined]

FilterInputs ==
    { NoFilters,
      [NoFilters EXCEPT !.status = Str("inactive"), !.sortBy = Str("createdAt")],
      [NoFilters EXCEPT !.sortBy = Str("name"), !.sortOrder = Str("asc")],
      [NoFilters EXCEPT !.searchTerm = Str(" M "), !.status = Str("active")] }

(***************************************************************************)
(* Patient directory service: pure parts of the methods.                   *)
(***************************************************************************)
NotFound == JsNull
Found(r) == [t |-> "object", v |-> r]

\* Timestamp.toDate(); the model's clock counts whole milliseconds
ToDate(ts) == ts

\* { id: snap.id, ...data, createdAt: ..., lastModified: ... }
PatientOf(pid, data) ==
    [f \in DOMAIN data \cup {"id"} |->
        IF f = "id" THEN pid
        ELSE IF f \in {"createdAt", "lastModified"} THEN ToDate(data[f])
        ELSE data[f]]

\* getPatient without the createdBy check of lines 120-124
GetPatientAnyOwner(st, userId, pid, readOk) ==
    IF ~readOk THEN NotFound
    ELSE IF pid \notin DOMAIN st THEN NotFound
    ELSE Found(PatientOf(pid, st[pid]))

\* getPatient: the document, if it exists and was created by userId
GetPatient(st, userId, pid, readOk) ==
    IF ~readOk THEN NotFound
    ELSE IF pid \notin DOMAIN st THEN NotFound
    ELSE IF st[pid].createdBy # userId THEN NotFound
    ELSE Found(PatientOf(pid, st[pid]))

\* orderBy(field): by the field's value, ties by document id
Before(st, a, b, field) ==
    LET x == st[a][field]
        y == st[b][field]
    IN IF x = y THEN a < b
       ELSE IF field = "name" THEN StrLess(x, y)
       ELSE x < y

RECURSIVE OrderAsc(_, _, _)
OrderAsc(st, ids, field) ==
    IF ids = {} THEN <<>>
    ELSE LET m == CHOOSE x \in ids : \A y \in ids \ {x} : Before(st, x, y, field)
         IN <<m>> \o OrderAsc(st, ids \ {m}, field)

Reverse(q) == [i \in 1..Len(q) |-> q[Len(q) + 1 - i]]

\* an ordering that ignores the direction
OrderByAscending(st, ids, field, direction) == OrderAsc(st, ids, field)

OrderBy(st, ids, field, direction) ==
    IF direction = "asc" THEN OrderAsc(st, ids, field)
    ELSE Reverse(OrderAsc(st, ids, field))

\* the client-side search filter of getPatients
MatchesSearch(patient, searchTerm) ==
    \/ Includes(ToLowerCase(patient.name), searchTerm)
    \/ /\ "mrn" \in DOMAIN patient
       /\ patient.mrn # ""
       /\ Includes(ToLowerCase(patient.mrn), searchTerm)

\* the query without its where('createdBy', '==', userId)
QueryIdsAnyOwner(st, userId, filters) ==
    { p \in DOMAIN st : Truthy(filters.status) => st[p].status = filters.status.v }

\* the query without its where('status', '==', filters.status)
QueryIdsAnyStatus(st, userId, filters) ==
    { p \in DOMAIN st : st[p].createdBy = userId }

\* where('createdBy', '==', userId) and, if given, where('status', '==', ...)
QueryIds(st, userId, filters) ==
    { p \in DOMAIN st :
        /\ st[p].createdBy = userId
        /\ (Truthy(filters.status) => st[p].status = filters.status.v) }

GetPatients(st, userId, filters, readOk) ==
    IF ~readOk THEN <<>>
    ELSE
    LET sortField == IF Truthy(filters.sortBy) THEN filters.sortBy.v ELSE "lastModified"
        sortDirection == IF Truthy(filters.sortOrder) THEN filters.sortOrder.v ELSE "desc"
        ordered == OrderBy(st, QueryIds(st, userId, filters), sortField, sortDirection)
        patients == [i \in 1..Len(ordered) |-> PatientOf(ordered[i], st[ordered[i]])]
        Keep(p) == MatchesSearch(p, Trim(ToLowerCase(filters.searchTerm.v)))
    IN IF Truthy(filters.searchTerm) THEN SelectSeq(patients, Keep) ELSE patients

\* a validation that tests the name without trimming it
CreateErrorUntrimmed(userId, patientData) ==
    IF ~Truthy(patientData.name) THEN "Patient name is required"
    ELSE IF userId = "" THEN "User ID is required for patient creation"
    ELSE ""

\* createPatient: validation of the arguments; "" when they are accepted
CreateError(userId, patientData) ==
    IF ~IsStr(patientData.name) \/ Trim(patientData.name.v) = ""
    THEN "Patient name is required"
    ELSE IF userId = "" THEN "User ID is required for patient creation"
    ELSE ""

\* a record with every optional field present, empty when it has no value
CreateFieldsWithPlaceholders(userId, patientData) ==
    [f \in {"name", "createdBy", "status", "mrn", "dob", "gender"} |->
        CASE f = "name" -> Trim(patientData.name.v)
          [] f = "createdBy" -> userId
          [] f = "status" -> "active"
          [] OTHER -> IF IsStr(patientData[f]) THEN Trim(patientData[f].v) ELSE ""]

\* createPatient: basePatient and optionalFields
CreateFields(userId, patientData) ==
    LET opt == { f \in {"mrn", "dob"} :
                    IsStr(patientData[f]) /\ Trim(patientData[f].v) # "" }
        gen == IF Truthy(patientData.gender) THEN {"gender"} ELSE {}
    IN [f \in {"name", "createdBy", "status"} \cup opt \cup gen |->
          CASE f = "name" -> Trim(patientData.name.v)
            [] f = "createdBy" -> userId
            [] f = "status" -> "active"
            [] f = "gender" -> patientData.gender.v
            [] OTHER -> Trim(patientData[f].v)]

\* updatePatient: does building updateData throw (null.trim())?
UpdateThrows(updates) ==
    \E f \in {"name", "mrn", "dob"} : updates[f] = JsNull

\* an updateData that blanks the mrn the caller did not mention
UpdateDataBlankingMrn(updates) ==
    LET trimmed == { f \in {"name", "mrn", "dob"} :
                        IsStr(updates[f]) /\ Trim(updates[f].v) # "" }
        sta == IF updates.status # Undefined THEN {"status"} ELSE {}
    IN [f \in trimmed \cup sta \cup {"mrn"} |->
          IF f \in trimmed THEN Trim(updates[f].v)
          ELSE IF f = "mrn" THEN ""
          ELSE updates[f].v]

\* an updateData that writes the blank values it is given
UpdateDataKeepingBlanks(updates) ==
    LET given == { f \in {"name", "mrn", "dob", "gender"} : IsStr(updates[f]) }
        sta == IF updates.status # Undefined THEN {"status"} ELSE {}
    IN [f \in given \cup sta |->
          IF f \in given THEN Trim(updates[f].v) ELSE updates[f].v]

\* updatePatient: updateData without its lastModified field
UpdateData(updates) ==
    LET trimmed == { f \in {"name", "mrn", "dob"} :
                        IsStr(updates[f]) /\ Trim(updates[f].v) # "" }
        gen == IF updates.gender # Undefined /\ updates.gender # Str("")
               THEN {"gender"} ELSE {}
        sta == IF updates.status # Undefined THEN {"status"} ELSE {}
    IN [f \in trimmed \cup gen \cup sta |->
          IF f \in trimmed THEN Trim(updates[f].v) ELSE updates[f].v]

\* a write that replaces the optional fields instead of merging into them
UpdateDocReplacing(doc, data) ==
    data @@ [f \in {"name", "createdBy", "status", "createdAt"} |-> doc[f]]

\* a write that also stamps the creation time anew
UpdateDocRestamping(doc, data) ==
    [data @@ doc EXCEPT !.createdAt = data.lastModified]

\* updateDoc: the given fields replace the document's, the others stay
UpdateDoc(doc, data) == data @@ doc

(***************************************************************************)
(* Note-generation endpoint: the prompt composer.                          *)
(***************************************************************************)
CONTEXT_PROMPTS ==
    ("hmhi-transfer" :>
        "You are a HIPAA-compliant AI clinical documentation assistant for Dr. Rufus Sweeney, a PGY-3 psychiatry resident at HMHI Downtown Clinic.\n\nGenerate a comprehensive transfer of care note for outpatient psychiatry.\n\nCRITICAL: HMHI Downtown uses Epic EMR - include relevant Epic SmartPhrases and @SMARTPHRASE@ syntax where appropriate.\n\nFor transfer of care notes, follow these specific guidelines:\n1. Copy forward unchanged sections from the previous note when appropriate\n2. Update only sections that have new information from the session\n3. Maintain continuity of care documentation\n4. Use Epic-compatible formatting and SmartPhrases")
    @@ ("hmhi-followup" :>
        "You are a HIPAA-compliant AI clinical documentation assistant for Dr. Rufus Sweeney, a PGY-3 psychiatry resident at HMHI Downtown Clinic.\n\nGenerate a concise but comprehensive outpatient psychiatry follow-up note.\n\nCRITICAL: HMHI Downtown uses Epic EMR - include relevant Epic SmartPhrases and @SMARTPHRASE@ syntax where appropriate.")
    @@ ("dbh-intake" :>
        "You are a HIPAA-compliant AI clinical documentation assistant for Dr. Rufus Sweeney, a PGY-3 psychiatry resident at Davis Behavioral Health.\n\nGenerate a comprehensive Credible EMR-compatible outpatient psychiatry intake assessment.\n\nCRITICAL: Davis Behavioral Health uses Credible EMR - output PLAIN TEXT ONLY. Do NOT use Epic SmartPhrases, @SMARTPHRASE@ syntax, or .dotphrases.\n\nStructure the note with comprehensive intake sections including detailed psychiatric history, mental status exam, and treatment plan.")
    @@ ("dbh-followup" :>
        "You are a HIPAA-compliant AI clinical documentation assistant for Dr. Rufus Sweeney, a PGY-3 psychiatry resident at Davis Behavioral Health.\n\nGenerate a Credible EMR-compatible outpatient psychiatry follow-up note.\n\nCRITICAL: Davis Behavioral Health uses Credible EMR - output PLAIN TEXT ONLY. Do NOT use Epic SmartPhrases, @SMARTPHRASE@ syntax, or .dotphrases.")
    @@ ("redwood-intake" :>
        "You are a HIPAA-compliant AI clinical documentation assistant for Dr. Rufus Sweeney, a PGY-3 psychiatry resident at Redwood Clinic MH Integration.\n\nGenerate a mental health integration intake note for primary care setting.\n\nUse clear, accessible language appropriate for integrated care documentation.")
    @@ ("redwood-followup" :>
        "You are a HIPAA-compliant AI clinical documentation assistant for Dr. Rufus Sweeney, a PGY-3 psychiatry resident at Redwood Clinic MH Integration.\n\nGenerate a mental health integration follow-up note for primary care setting.\n\nUse clear, accessible language appropriate for integrated care documentation.")

DefaultContext == "hmhi-transfer"

\* CONTEXT_PROMPTS is an object literal: a lookup also finds the properties
\* it inherits from Object.prototype, which are functions
ObjectPrototype ==
    ("toString" :> "function toString() { [native code] }")
    @@ ("constructor" :> "function Object() { [native code] }")

Func(text) == [t |-> "function", v |-> text]
Obj(fields) == [t |-> "object", v |-> fields]

\* CONTEXT_PROMPTS[context]
ContextLookup(context) ==
    IF IsStr(context) /\ context.v \in DOMAIN CONTEXT_PROMPTS
    THEN Str(CONTEXT_PROMPTS[context.v])
    ELSE IF IsStr(context) /\ context.v \in DOMAIN ObjectPrototype
    THEN Func(ObjectPrototype[context.v])
    ELSE Undefined

\* ${value} in a template literal
Interpolate(x) ==
    CASE x.t = "undefined" -> "undefined"
      [] x.t = "null" -> "null"
      [] x.t = "object" -> "[object Object]"
      [] OTHER -> x.v

\* CONTEXT_PROMPTS[context] || CONTEXT_PROMPTS['hmhi-transfer']
SystemPrompt(context) ==
    IF Truthy(ContextLookup(context)) THEN ContextLookup(context)
    ELSE Str(CONTEXT_PROMPTS[DefaultContext])

TranscriptLabel == "\n\nTRANSCRIPT:\n"
PatientLabel == "\n\nPATIENT INFORMATION:\nName: "
MrnLabel == "\nMRN: "
DobLabel == "\nDate of Birth: "
GenderLabel == "\nGender: "
PreviousNoteLabel == "\n\nPREVIOUS PATIENT NOTE:\n"
ClosingInstruction == "\n\nGenerate the clinical note now:"

\* a field line written whether or not the field has a value
FieldLineAlways(label, value) == label \o Interpolate(value)

\* the line added for one optional field of the patient context
FieldLine(label, value) ==
    IF Truthy(value) THEN label \o Interpolate(value) ELSE ""

\* if (patientContext) { ... }
PatientBlock(patientContext) ==
    IF Truthy(patientContext)
    THEN PatientLabel \o Interpolate(patientContext.v.patientName)
           \o FieldLine(MrnLabel, patientContext.v.patientMRN)
           \o FieldLine(DobLabel, patientContext.v.patientDOB)
           \o FieldLine(GenderLabel, patientContext.v.patientGender)
    ELSE ""

\* the previous-note block without the context test of line 112
PreviousNoteBlockAnyContext(context, previousNote) ==
    IF Truthy(previousNote)
    THEN PreviousNoteLabel \o Interpolate(previousNote)
    ELSE ""

\* if (context === 'hmhi-transfer' && previousNote) { ... }
PreviousNoteBlock(context, previousNote) ==
    IF context = Str(DefaultContext) /\ Truthy(previousNote)
    THEN PreviousNoteLabel \o Interpolate(previousNote)
    ELSE ""

\* a transcript section that trims the transcript
TranscriptSectionTrimmed(transcript) ==
    TranscriptLabel \o Trim(Interpolate(transcript))

\* the transcript section: the label and ${transcript}
TranscriptSection(transcript) == TranscriptLabel \o Interpolate(transcript)

\* the prompt handed to model.generateContent
ComposePrompt(b) ==
    Interpolate(SystemPrompt(b.context))
      \o TranscriptSection(b.transcript)
      \o PatientBlock(b.patientContext)
      \o PreviousNoteBlock(b.context, b.previousNote)
      \o ClosingInstruction

(***************************************************************************)
(* Note-generation endpoint: requests.                                     *)
(***************************************************************************)
Transcripts ==
    { Undefined, Str(""), Str("   "),
      Str("Pt reports improved sleep."),
      Str("  Mood <b>low</b> & \"flat\"\n\nDenies SI.  ") }

Contexts ==
    { Str(k) : k \in DOMAIN CONTEXT_PROMPTS }
      \cup { Undefined, Str("unknown-clinic"), Str("toString") }

PreviousNotes == { Undefined, Str(""), Str("Prior visit: stable on sertraline.") }

NoContextFields ==
    [patientId |-> Str("p1"), patientName |-> Str("Jane Doe"),
     patientMRN |-> Undefined, patientDOB |-> Undefined, patientGender |-> Undefined]

PatientContexts ==
    { Undefined, JsNull,
      Obj(NoContextFields),
      Obj([NoContextFields EXCEPT !.patientMRN = Str("M1"),
                                  !.patientDOB = Str("1990-01-01"),
                                  !.patientGender = Str("female")]),
      Obj([NoContextFields EXCEPT !.patientMRN = Str(""),
                                  !.patientDOB = Str("1990-01-01"),
                                  !.patientGender = Str("")]) }

Bodies ==
    [transcript : Transcripts, context : Contexts,
     previousNote : PreviousNotes, patientContext : PatientContexts]

\* what response.text() may return
NoteTexts == { "", "SUBJECTIVE: ...", "\n  ## Plan\n- continue <b>sertraline</b> \"50 mg\"\n\n" }

NoBody ==
    [transcript |-> Undefined, context |-> Undefined,
     previousNote |-> Undefined, patientContext |-> Undefined]
NoResp == [status |-> 0, error |-> "", note |-> "", patientContext |-> JsNull]
ErrorResponse(status, error) ==
    [status |-> status, error |-> error, note |-> "", patientContext |-> JsNull]

TranscriptRequired == "Transcript is required"
KeyNotConfigured == "Gemini API key not configured"
GenerationFailed == "Failed to generate note"

(***************************************************************************)
(* Patient directory service: the calls.                                   *)
(***************************************************************************)
StoreError == "unavailable"
NotFoundError == "Patient not found or access denied"
NullTrimError == "Cannot read properties of null (reading 'trim')"

\* what a call answered: the value it returned, or the error it threw
Outcome(op, user, pid, ok, error, value) ==
    [op |-> op, user |-> user, pid |-> pid, ok |-> ok, error |-> error, value |-> value]

NoRet == Outcome("none", "", 0, TRUE, "", Undefined)

\* a reactivatePatient that passes no status
UpdatesOfWithoutReactivation(op, updates) ==
    CASE op = "deactivatePatient" -> [NoUpdates EXCEPT !.status = Str("inactive")]
      [] OTHER -> updates

\* the updates deactivatePatient / reactivatePatient pass to updatePatient
UpdatesOf(op, updates) ==
    CASE op = "deactivatePatient" -> [NoUpdates EXCEPT !.status = Str("inactive")]
      [] op = "reactivatePatient" -> [NoUpdates EXCEPT !.status = Str("active")]
      [] OTHER -> updates

\* the update calls made: updatePatient with each input, and the two wrappers
UpdateCalls ==
    { [op |-> "updatePatient", updates |-> u] : u \in UpdateInputs }
      \cup { [op |-> o, updates |-> NoUpdates] :
                o \in {"deactivatePatient", "reactivatePatient"} }

\* updatePatient up to its updateDoc call: the error thrown, or ""
UpdateError(st, userId, pid, updates, readOk) ==
    IF GetPatient(st, userId, pid, readOk) = NotFound
    THEN "Failed to update patient: " \o NotFoundError
    ELSE IF UpdateThrows(updates)
    THEN "Failed to update patient: " \o NullTrimError
    ELSE ""

\* the store after updateDoc(patientRef, updateData) at server time now
Written(st, pid, updates, now) ==
    [st EXCEPT ![pid] = UpdateDoc(@, UpdateData(updates) @@ ("lastModified" :> now))]

IdleCall == [pc |-> "idle", op |-> "none", user |-> "", pid |-> 0,
             updates |-> NoUpdates, error |-> ""]
Slots == {"c1", "c2"}

(***************************************************************************)
(* The auth provider (AuthProvider): Firebase auth state, the listener     *)
(* that the mount effect registers, and the session timer.  The effect has *)
(* an empty dependency list, so the listener, the activity handler and the *)
(* cleanup keep the values of the first render: user = null and            *)
(* sessionTimer = null.  The functions handed out through the context are  *)
(* those of the latest render and see the current state.                   *)
(***************************************************************************)
\* SESSION_TIMEOUT, in ticks of 7.5 minutes
SessionTimeout == 2

NoUser == "none"
\* "a" has an account and a profile; "b" has none and can sign up
AuthUids == {"a", "b"}
\* useState(null) for user and sessionTimer, as the mount effect captured them
MountUser == NoUser
MountTimer == 0

NoSession == [uid |-> NoUser, start |-> 0, expired |-> FALSE]
NoSignUp == [pc |-> "idle", uid |-> NoUser]

\* a mutant of TimerDue: the timer is set one tick too long
TimerDueLate(t) == t + SessionTimeout + 1

\* the deadline of setTimeout(..., SESSION_TIMEOUT) called at time t
TimerDue(t) == t + SessionTimeout

\* the ids of the timers still pending
Pending(ts) == {i \in 1..Len(ts) : ts[i].state = "pending"}

\* if (timer) clearTimeout(timer)
ClearTimeout(ts, id) ==
    IF id \in Pending(ts) THEN [ts EXCEPT ![id].state = "cleared"] ELSE ts

\* startSessionTimer() of a render whose sessionTimer is closureTimer
StartSessionTimer(ts, closureTimer, t) ==
    Append(ClearTimeout(ts, closureTimer),
           [due |-> TimerDue(t), state |-> "pending"])

\* Firebase queues a notification when the signed-in user changes
Notified(ns, old, new) == IF new # old THEN Append(ns, new) ELSE ns

InitAuth ==
    /\ time = 0
    /\ authUser = NoUser
    /\ ctxUser = NoUser
    /\ sessionTimer = 0
    /\ timers = <<>>
    /\ notices = <<>>
    /\ loads = {}
    /\ profiles = {"a"}
    /\ signup = NoSignUp
    /\ mounted = TRUE
    /\ lastActivity = 0
    /\ session = NoSession

\* signIn: signInWithEmailAndPassword resolves for an existing account
SignIn(uid) ==
    /\ mounted
    /\ authUser = NoUser
    /\ uid \in profiles
    /\ signup.pc # "profile"
    /\ Len(notices) < MaxNotices
    /\ authUser' = uid
    /\ notices' = Notified(notices, authUser, uid)
    /\ UNCHANGED <<time, ctxUser, sessionTimer, timers, loads, profiles, signup,
                   mounted, lastActivity, session, svcVars, noteVars>>

\* signUp, first await: createUserWithEmailAndPassword signs the new user in
SignUpCreate(uid) ==
    /\ mounted
    /\ authUser = NoUser
    /\ uid \notin profiles
    /\ signup.pc = "idle"
    /\ Len(notices) < MaxNotices
    /\ authUser' = uid
    /\ notices' = Notified(notices, authUser, uid)
    /\ signup' = [pc |-> "profile", uid |-> uid]
    /\ UNCHANGED <<time, ctxUser, sessionTimer, timers, loads, profiles,
                   mounted, lastActivity, session, svcVars, noteVars>>

\* signUp, second await: createUserProfile's setDoc resolves or rejects
SignUpWriteProfile(ok) ==
    /\ signup.pc = "profile"
    /\ profiles' = IF ok THEN profiles \cup {signup.uid} ELSE profiles
    /\ signup' = [signup EXCEPT !.pc = IF ok THEN "done" ELSE "failed"]
    /\ UNCHANGED <<time, authUser, ctxUser, sessionTimer, timers, notices, loads,
                   mounted, lastActivity, session, svcVars, noteVars>>

\* the listener is called with the next auth state; with a user it goes on
\* to getUserProfile, without one it only clears the loading flag
DeliverNotice ==
    /\ mounted
    /\ notices # <<>>
    /\ notices' = Tail(notices)
    /\ loads' = IF Head(notices) # NoUser
                THEN loads \cup {[uid |-> Head(notices), pc |-> "getProfile"]}
                ELSE loads
    /\ UNCHANGED <<time, authUser, ctxUser, sessionTimer, timers, profiles, signup,
                   mounted, lastActivity, session, svcVars, noteVars>>

\* getUserProfile answers a profile: setUser(userProfile), startSessionTimer()
ProfileFound(l) ==
    /\ l \in loads
    /\ l.pc = "getProfile"
    /\ l.uid \in profiles
    /\ Len(timers) < MaxTimers
    /\ loads' = loads \ {l}
    /\ ctxUser' = l.uid
    /\ timers' = StartSessionTimer(timers, MountTimer, time)
    /\ sessionTimer' = Len(timers')
    /\ session' = IF authUser = l.uid
                  THEN [uid |-> l.uid, start |-> time, expired |-> FALSE]
                  ELSE session
    /\ UNCHANGED <<time, authUser, notices, profiles, signup, mounted,
                   lastActivity, svcVars, noteVars>>

\* getUserProfile answers null: the listener goes on to authService.signOut()
ProfileMissing(l) ==
    /\ l \in loads
    /\ l.pc = "getProfile"
    /\ l.uid \notin profiles
    /\ loads' = (loads \ {l}) \cup {[l EXCEPT !.pc = "signOut"]}
    /\ UNCHANGED <<time, authUser, ctxUser, sessionTimer, timers, notices,
                   profiles, signup, mounted, lastActivity, session,
                   svcVars, noteVars>>

\* the listener's authService.signOut() resolves, or rejects into the catch
\* block and its setUser(null)
ListenerSignOut(l, ok) ==
    /\ l \in loads
    /\ l.pc = "signOut"
    /\ loads' = loads \ {l}
    /\ IF ok
       THEN /\ authUser' = NoUser
            /\ notices' = Notified(notices, authUser, NoUser)
            /\ session' = NoSession
            /\ UNCHANGED ctxUser
       ELSE /\ ctxUser' = NoUser
            /\ UNCHANGED <<authUser, notices, session>>
    /\ UNCHANGED <<time, sessionTimer, timers, profiles, signup, mounted,
                   lastActivity, svcVars, noteVars>>

\* a mousedown, mousemove, keypress, scroll or touchstart event: the handler
\* registered at mount runs resetSessionTimer with the user of that render
Activity ==
    /\ mounted
    /\ lastActivity' = time
    /\ IF MountUser # NoUser
       THEN /\ Len(timers) < MaxTimers
            /\ timers' = StartSessionTimer(timers, MountTimer, time)
            /\ sessionTimer' = Len(timers')
       ELSE UNCHANGED <<timers, sessionTimer>>
    /\ UNCHANGED <<time, authUser, ctxUser, notices, loads, profiles, signup,
                   mounted, session, svcVars, noteVars>>

\* time passes; a timer that is due fires before time moves on
Tick ==
    /\ time < MaxTime
    /\ \A i \in Pending(timers) : timers[i].due > time
    /\ time' = time + 1
    /\ UNCHANGED <<authUser, ctxUser, sessionTimer, timers, notices, loads,
                   profiles, signup, mounted, lastActivity, session,
                   svcVars, noteVars>>

\* a timer fires: its callback awaits the signOut of the render that started
\* it, the first one, whose sessionTimer is null
TimerFires(i, ok) ==
    /\ i \in Pending(timers)
    /\ timers[i].due <= time
    /\ IF ok
       THEN /\ authUser' = NoUser
            /\ notices' = Notified(notices, authUser, NoUser)
            /\ session' = NoSession
            /\ timers' = ClearTimeout([timers EXCEPT ![i].state = "fired"],
                                      MountTimer)
       ELSE /\ session' = IF session = NoSession THEN session
                          ELSE [session EXCEPT !.expired = TRUE]
            /\ timers' = [timers EXCEPT ![i].state = "fired"]
            /\ UNCHANGED <<authUser, notices>>
    /\ UNCHANGED <<time, ctxUser, sessionTimer, loads, profiles, signup, mounted,
                   lastActivity, svcVars, noteVars>>

\* signOut from the context, called by a component that shows a user:
\* authService.signOut(), then clearTimeout of the current sessionTimer
SignOut(ok) ==
    /\ mounted
    /\ ctxUser # NoUser
    /\ IF ok
       THEN /\ authUser' = NoUser
            /\ notices' = Notified(notices, authUser, NoUser)
            /\ session' = NoSession
            /\ timers' = ClearTimeout(timers, sessionTimer)
       ELSE UNCHANGED <<authUser, notices, session, timers>>
    /\ UNCHANGED <<time, ctxUser, sessionTimer, loads, profiles, signup, mounted,
                   lastActivity, svcVars, noteVars>>

\* the provider unmounts: the effect's cleanup unsubscribes, clears the
\* sessionTimer of the first render and removes the activity handlers
Unmount ==
    /\ mounted
    /\ mounted' = FALSE
    /\ timers' = ClearTimeout(timers, MountTimer)
    /\ UNCHANGED <<time, authUser, ctxUser, sessionTimer, notices, loads, profiles,
                   signup, lastActivity, session, svcVars, noteVars>>

NextAuth ==
    \/ \E uid \in AuthUids : SignIn(uid)
    \/ \E uid \in AuthUids : SignUpCreate(uid)
    \/ \E ok \in BOOLEAN : SignUpWriteProfile(ok)
    \/ DeliverNotice
    \/ \E l \in loads : ProfileFound(l)
    \/ \E l \in loads : ProfileMissing(l)
    \/ \E l \in loads, ok \in BOOLEAN : ListenerSignOut(l, ok)
    \/ Activity
    \/ Tick
    \/ \E i \in 1..MaxTimers, ok \in BOOLEAN : TimerFires(i, ok)
    \/ \E ok \in BOOLEAN : SignOut(ok)
    \/ Unmount

InitService ==
    /\ store = <<>>
    /\ clock = 0
    /\ ret = NoRet
    /\ calls = [s \in Slots |-> IdleCall]

\* no request has arrived
InitEndpoint ==
    /\ pc = "idle"
    /\ body = NoBody
    /\ prompt = ""
    /\ genCalls = 0
    /\ generated = Undefined
    /\ resp = NoResp

Init ==
    /\ InitService
    /\ InitEndpoint
    /\ InitAuth
    /\ apiKey = Str("key")

SpecAuth == Init /\ [][NextAuth]_vars

CreatePatientRejected(userId, patientData) ==
    /\ CreateError(userId, patientData) # ""
    /\ ret' = Outcome("createPatient", userId, 0, FALSE,
                      "Failed to create patient: " \o CreateError(userId, patientData),
                      Undefined)
    /\ UNCHANGED <<store, clock, calls, noteVars, authVars>>

CreatePatientStoreFails(userId, patientData) ==
    /\ CreateError(userId, patientData) = ""
    /\ ret' = Outcome("createPatient", userId, 0, FALSE,
                      "Failed to create patient: " \o StoreError, Undefined)
    /\ UNCHANGED <<store, clock, calls, noteVars, authVars>>

\* doc(collectionRef) makes a new unique id; the model hands them out in order
CreatePatientOk(userId, patientData, pid, skew) ==
    /\ CreateError(userId, patientData) = ""
    /\ pid # UnusedId
    /\ clock < MaxClock
    /\ pid \notin DOMAIN store
    /\ clock' = clock + 1
    /\ LET fields == CreateFields(userId, patientData)
           saved == fields @@ ("createdAt" :> clock') @@ ("lastModified" :> clock')
           now == clock' + skew
           returned == ("id" :> pid) @@ fields
                         @@ ("createdAt" :> now) @@ ("lastModified" :> now)
       IN /\ store' = (pid :> saved) @@ store
          /\ ret' = Outcome("createPatient", userId, pid, TRUE, "", returned)
    /\ UNCHANGED <<calls, noteVars, authVars>>

CreatePatient ==
    \E userId \in CallerIds, patientData \in CreateInputs :
        \/ CreatePatientRejected(userId, patientData)
        \/ CreatePatientStoreFails(userId, patientData)
        \/ \E skew \in ClockSkews :
              CreatePatientOk(userId, patientData, Cardinality(DOMAIN store) + 1, skew)

GetPatientCall ==
    \E userId \in Users, pid \in PatientIds, readOk \in BOOLEAN :
        /\ ret' = Outcome("getPatient", userId, pid, TRUE, "",
                          GetPatient(store, userId, pid, readOk))
        /\ UNCHANGED <<store, clock, calls, noteVars, authVars>>

GetPatientsCall ==
    \E userId \in Users, filters \in FilterInputs, readOk \in BOOLEAN :
        /\ ret' = Outcome("getPatients", userId, 0, TRUE, "",
                          GetPatients(store, userId, filters, readOk))
        /\ UNCHANGED <<store, clock, calls, noteVars, authVars>>

\* updatePatient, deactivatePatient or reactivatePatient, awaited by the caller
UpdatePatientFails(op, userId, pid, updates, readOk) ==
    /\ UpdateError(store, userId, pid, updates, readOk) # ""
    /\ ret' = Outcome(op, userId, pid, FALSE,
                      UpdateError(store, userId, pid, updates, readOk), Undefined)
    /\ UNCHANGED <<store, clock, calls, noteVars, authVars>>

UpdatePatientStoreFails(op, userId, pid, updates) ==
    /\ UpdateError(store, userId, pid, updates, TRUE) = ""
    /\ ret' = Outcome(op, userId, pid, FALSE,
                      "Failed to update patient: " \o StoreError, Undefined)
    /\ UNCHANGED <<store, clock, calls, noteVars, authVars>>

UpdatePatientOk(op, userId, pid, updates) ==
    /\ UpdateError(store, userId, pid, updates, TRUE) = ""
    /\ clock < MaxClock
    /\ clock' = clock + 1
    /\ store' = Written(store, pid, updates, clock')
    /\ ret' = Outcome(op, userId, pid, TRUE, "", Undefined)
    /\ UNCHANGED <<calls, noteVars, authVars>>

UpdatePatient ==
    \E c \in UpdateCalls, userId \in Users, pid \in PatientIds :
        LET op == c.op
            updates == UpdatesOf(c.op, c.updates)
            owned == pid \in DOMAIN store /\ store[pid].createdBy = userId
        IN
        \/ UpdatePatientFails(op, userId, pid, updates, TRUE)
        \/ owned /\ UpdatePatientFails(op, userId, pid, updates, FALSE)
        \/ owned /\ UpdatePatientStoreFails(op, userId, pid, updates)
        \/ owned /\ UpdatePatientOk(op, userId, pid, updates)

Next ==
    \/ CreatePatient
    \/ GetPatientCall
    \/ GetPatientsCall
    \/ UpdatePatient

\* one client at a time: every call is awaited before the next is made
Spec == Init /\ [][Next]_vars

(***************************************************************************)
(* Concurrent callers: updatePatient suspends at its two awaits, getDoc    *)
(* (inside getPatient) and updateDoc, and other calls run in between.      *)
(***************************************************************************)
ConcCalls ==
    { [op |-> "updatePatient", updates |-> [NoUpdates EXCEPT !.name = Str(" Al ")]],
      [op |-> "updatePatient", updates |-> [NoUpdates EXCEPT !.mrn = Str("M2 ")]],
      [op |-> "deactivatePatient", updates |-> NoUpdates],
      [op |-> "reactivatePatient", updates |-> NoUpdates] }

ConcCreateInput ==
    [name |-> Str("bob"), mrn |-> Str(" M1 "), dob |-> Str("1990-01-01"), gender |-> Str("male")]

\* a call that has returned (error = "") or thrown
Done(c, error) ==
    [IdleCall EXCEPT !.pc = "done", !.user = c.user, !.pid = c.pid, !.error = error]

\* a caller invokes updatePatient / deactivatePatient / reactivatePatient
CallUpdate(s) ==
    \E c \in ConcCalls, userId \in Users, pid \in PatientIds :
        /\ calls[s].pc \in {"idle", "done"}
        /\ calls' = [calls EXCEPT ![s] =
                        [pc |-> "getPatient", op |-> c.op, user |-> userId, pid |-> pid,
                         updates |-> UpdatesOf(c.op, c.updates), error |-> ""]]
        /\ UNCHANGED <<store, clock, ret, noteVars, authVars>>

\* the getDoc of getPatient answers; the call runs on to its updateDoc or throws
GetDocStep(s) ==
    \E readOk \in BOOLEAN :
        LET c == calls[s]
            err == UpdateError(store, c.user, c.pid, c.updates, readOk)
        IN /\ c.pc = "getPatient"
           /\ calls' = [calls EXCEPT ![s] =
                           IF err # "" THEN Done(c, err)
                           ELSE [c EXCEPT !.pc = "updateDoc"]]
           /\ UNCHANGED <<store, clock, ret, noteVars, authVars>>

\* the server applies the updateDoc and the call returns
UpdateDocStep(s) ==
    LET c == calls[s]
    IN /\ c.pc = "updateDoc"
       /\ clock < MaxClock
       /\ clock' = clock + 1
       /\ store' = Written(store, c.pid, c.updates, clock')
       /\ calls' = [calls EXCEPT ![s] = Done(c, "")]
       /\ UNCHANGED <<ret, noteVars, authVars>>

\* the updateDoc is rejected (network, quota) and the call throws
UpdateDocFails(s) ==
    LET c == calls[s]
    IN /\ c.pc = "updateDoc"
       /\ calls' = [calls EXCEPT ![s] = Done(c, "Failed to update patient: " \o StoreError)]
       /\ UNCHANGED <<store, clock, ret, noteVars, authVars>>

CreateConc ==
    \E userId \in Users :
        CreatePatientOk(userId, ConcCreateInput, Cardinality(DOMAIN store) + 1, 0)

NextConc ==
    \/ CreateConc
    \/ \E s \in Slots : CallUpdate(s)
    \/ \E s \in Slots : GetDocStep(s)
    \/ \E s \in Slots : UpdateDocStep(s)
    \/ \E s \in Slots : UpdateDocFails(s)

SpecConc == Init /\ [][NextConc]_vars

(***************************************************************************)
(* Note-generation endpoint: the POST handler.                             *)
(***************************************************************************)
\* a handler that calls the generator a second time before giving up
RetryAfterFailure(n) ==
    IF n < 2
    THEN [pc |-> "generating", genCalls |-> n + 1, resp |-> NoResp]
    ELSE [pc |-> "responded", genCalls |-> n,
          resp |-> ErrorResponse(500, GenerationFailed)]

\* a catch block that reports what it was working on
FailureWithDetails(n) ==
    [pc |-> "responded", genCalls |-> n,
     resp |-> ErrorResponse(500, GenerationFailed \o " for: " \o Interpolate(body.transcript))]

\* what the handler does when the generator call fails: the catch block
AfterGeneratorFailure(n) ==
    [pc |-> "responded", genCalls |-> n, resp |-> ErrorResponse(500, GenerationFailed)]

\* a handler that tidies the generator's text before answering
ResponseNoteTrimmed(text) == Trim(text)

\* the note put in the response: const note = response.text(), as it is
ResponseNote(text) == text

\* request.json() throws on a body that is not JSON
PostMalformed ==
    /\ pc = "idle"
    /\ pc' = "responded"
    /\ resp' = ErrorResponse(500, GenerationFailed)
    /\ UNCHANGED <<apiKey, body, prompt, genCalls, generated, svcVars, authVars>>

\* if (!transcript)
PostWithoutTranscript(b) ==
    /\ pc = "idle"
    /\ ~Truthy(b.transcript)
    /\ body' = b
    /\ pc' = "responded"
    /\ resp' = ErrorResponse(400, TranscriptRequired)
    /\ UNCHANGED <<apiKey, prompt, genCalls, generated, svcVars, authVars>>

\* a handler that does not test the credential before calling the generator
PostWithoutKeyUnchecked(b) ==
    /\ pc = "idle"
    /\ Truthy(b.transcript)
    /\ ~Truthy(apiKey)
    /\ body' = b
    /\ prompt' = ComposePrompt(b)
    /\ genCalls' = genCalls + 1
    /\ pc' = "generating"
    /\ UNCHANGED <<apiKey, generated, resp, svcVars, authVars>>

\* if (!process.env.GOOGLE_GEMINI_API_KEY)
PostWithoutKey(b) ==
    /\ pc = "idle"
    /\ Truthy(b.transcript)
    /\ ~Truthy(apiKey)
    /\ body' = b
    /\ pc' = "responded"
    /\ resp' = ErrorResponse(500, KeyNotConfigured)
    /\ UNCHANGED <<apiKey, prompt, genCalls, generated, svcVars, authVars>>

\* the prompt is composed and model.generateContent(prompt) is called
PostGenerate(b) ==
    /\ pc = "idle"
    /\ Truthy(b.transcript)
    /\ Truthy(apiKey)
    /\ body' = b
    /\ prompt' = ComposePrompt(b)
    /\ genCalls' = genCalls + 1
    /\ pc' = "generating"
    /\ UNCHANGED <<apiKey, generated, resp, svcVars, authVars>>

Post ==
    \/ PostMalformed
    \/ \E b \in Bodies :
          \/ PostWithoutTranscript(b)
          \/ PostWithoutKey(b)
          \/ PostGenerate(b)

\* an echo that looks the patient up again when the response is built
EchoedContextLive(patientContext) ==
    IF Truthy(patientContext)
    THEN LET pid == CHOOSE p \in PatientIds : ToString(p) = patientContext.v.patientId.v
         IN IF pid \in DOMAIN store
            THEN Obj([patientContext.v EXCEPT !.patientName = Str(store[pid].name)])
            ELSE JsNull
    ELSE JsNull

\* patientContext: patientContext || null
EchoedContext(patientContext) ==
    IF Truthy(patientContext) THEN patientContext ELSE JsNull

\* the generator answers and response.text() returns the note
GeneratorReturns ==
    \E note \in NoteTexts :
        /\ pc = "generating"
        /\ pc' = "responded"
        /\ generated' = Str(note)
        /\ resp' = [status |-> 200, error |-> "", note |-> ResponseNote(note),
                    patientContext |-> EchoedContext(body.patientContext)]
        /\ UNCHANGED <<apiKey, body, prompt, genCalls, svcVars, authVars>>

\* generateContent rejects, or response.text() throws
GeneratorFails ==
    /\ pc = "generating"
    /\ LET next == AfterGeneratorFailure(genCalls)
       IN /\ pc' = next.pc
          /\ genCalls' = next.genCalls
          /\ resp' = next.resp
    /\ UNCHANGED <<apiKey, body, prompt, generated, svcVars, authVars>>

\* the response has been sent; the handler is ready for the next request
NextRequest ==
    /\ pc = "responded"
    /\ pc' = "idle"
    /\ body' = NoBody
    /\ prompt' = ""
    /\ genCalls' = 0
    /\ generated' = Undefined
    /\ resp' = NoResp
    /\ UNCHANGED <<apiKey, svcVars, authVars>>

InitNote ==
    /\ InitService
    /\ InitEndpoint
    /\ InitAuth
    /\ apiKey \in {Undefined, Str(""), Str("key")}

NextNote ==
    \/ Post
    \/ GeneratorReturns
    \/ GeneratorFails
    \/ NextRequest

SpecNote == InitNote /\ [][NextNote]_vars

(***************************************************************************)
(* The note generator page and the patient directory together: the page    *)
(* sends a copy of the selected patient with the request, and the record   *)
(* may be updated while the request is being handled.                      *)
(***************************************************************************)
FieldOr(patient, f) == IF f \in DOMAIN patient THEN Str(patient[f]) ELSE Undefined

\* requestBody.patientContext: a copy of the selected patient's fields
SnapshotOf(patient) ==
    Obj([patientId |-> Str(ToString(patient.id)),
         patientName |-> Str(patient.name),
         patientMRN |-> FieldOr(patient, "mrn"),
         patientDOB |-> FieldOr(patient, "dob"),
         patientGender |-> FieldOr(patient, "gender")])

\* what the page types in: transcript and context
PageInputs ==
    { [transcript |-> Str("Pt reports improved sleep."), context |-> Str("hmhi-followup")],
      [transcript |-> Str("Transfer from Dr. A."), context |-> Str("hmhi-transfer")] }

\* requestBody of generateNote; selected is the selected patient or null
RequestBody(input, selected) ==
    [transcript |-> input.transcript,
     context |-> input.context,
     previousNote |-> Undefined,
     patientContext |-> IF Truthy(selected) THEN SnapshotOf(selected.v) ELSE Undefined]

\* generateNote: the page posts the request for the patient it has selected
GenerateNote ==
    \E input \in PageInputs, userId \in Users, pid \in PatientIds \cup {0} :
        PostGenerate(RequestBody(input,
                        IF pid = 0 THEN JsNull ELSE GetPatient(store, userId, pid, TRUE)))

\* another tab or device edits a patient record
RecordUpdated ==
    \E c \in ConcCalls, userId \in Users, pid \in PatientIds :
        UpdatePatientOk(c.op, userId, pid, UpdatesOf(c.op, c.updates))

NextSnapshot ==
    \/ CreateConc
    \/ RecordUpdated
    \/ GenerateNote
    \/ GeneratorReturns
    \/ GeneratorFails
    \/ NextRequest

SpecSnapshot == Init /\ [][NextSnapshot]_vars

(***************************************************************************)
(* Two updatePatient calls by the owner on one record, each giving one     *)
(* field, the two fields different; each caller keeps what it asked for.   *)
(***************************************************************************)
SingleFieldUpdates ==
    { [NoUpdates EXCEPT !.name = Str(" Al ")],
      [NoUpdates EXCEPT !.mrn = Str("M2 ")],
      [NoUpdates EXCEPT !.dob = Str("2000-02-02")],
      [NoUpdates EXCEPT !.gender = Str("other")],
      [NoUpdates EXCEPT !.status = Str("inactive")] }

\* the fields an updates argument provides
Provided(updates) == { f \in DOMAIN updates : updates[f] # Undefined }

\* a call that has returned (error = "") or thrown, as its caller sees it
Returned(c, error) == [c EXCEPT !.pc = "returned", !.error = error]

\* the owner calls updatePatient for a field the other call does not give
PairCall(s) ==
    \E updates \in SingleFieldUpdates, pid \in DOMAIN store :
        /\ calls[s].pc = "idle"
        /\ \A t \in Slots \ {s} :
              /\ Provided(updates) \cap Provided(calls[t].updates) = {}
              /\ calls[t].pc # "idle" => calls[t].pid = pid
        /\ calls' = [calls EXCEPT ![s] =
                        [pc |-> "getPatient", op |-> "updatePatient",
                         user |-> store[pid].createdBy, pid |-> pid,
                         updates |-> updates, error |-> ""]]
        /\ UNCHANGED <<store, clock, ret, noteVars, authVars>>

\* the getDoc of getPatient answers
PairGetDoc(s) ==
    \E readOk \in BOOLEAN :
        LET c == calls[s]
            err == UpdateError(store, c.user, c.pid, c.updates, readOk)
        IN /\ c.pc = "getPatient"
           /\ calls' = [calls EXCEPT ![s] =
                           IF err # "" THEN Returned(c, err)
                           ELSE [c EXCEPT !.pc = "updateDoc"]]
           /\ UNCHANGED <<store, clock, ret, noteVars, authVars>>

\* the server applies the updateDoc and the call returns
PairUpdateDoc(s) ==
    LET c == calls[s]
    IN /\ c.pc = "updateDoc"
       /\ clock < MaxClock
       /\ clock' = clock + 1
       /\ store' = Written(store, c.pid, c.updates, clock')
       /\ calls' = [calls EXCEPT ![s] = Returned(c, "")]
       /\ UNCHANGED <<ret, noteVars, authVars>>

\* the updateDoc is rejected and the call throws
PairUpdateFails(s) ==
    LET c == calls[s]
    IN /\ c.pc = "updateDoc"
       /\ calls' = [calls EXCEPT ![s] =
                       Returned(c, "Failed to update patient: " \o StoreError)]
       /\ UNCHANGED <<store, clock, ret, noteVars, authVars>>

\* the record the two calls are about
CreateForPair ==
    /\ DOMAIN store = {}
    /\ CreateConc

NextPair ==
    \/ CreateForPair
    \/ \E s \in Slots : PairCall(s)
    \/ \E s \in Slots : PairGetDoc(s)
    \/ \E s \in Slots : PairUpdateDoc(s)
    \/ \E s \in Slots : PairUpdateFails(s)

SpecPair == Init /\ [][NextPair]_vars

(***************************************************************************)
(* The patient list page: records are created and edited, and listed.      *)
(***************************************************************************)
CreateForList ==
    \E userId \in Users, patientData \in CreateInputs :
        CreatePatientOk(userId, patientData, Cardinality(DOMAIN store) + 1, 0)

NextList ==
    \/ CreateForList
    \/ RecordUpdated
    \/ GetPatientsCall

SpecList == Init /\ [][NextList]_vars

(***************************************************************************)
(* Claims about the patient directory service.                             *)
(***************************************************************************)
\* filter combinations for the statements quantified over getPatients' input
AllFilters ==
    [searchTerm : {Undefined, Str(" M ")},
     status : {Undefined, Str("active"), Str("inactive")},
     sortBy : {Undefined, Str("name")},
     sortOrder : {Undefined, Str("asc")}]

\* C1: getPatient(userA, id) for a record created by another user answers
\* null, exactly as for an id without a document: it returns neither the
\* record nor an error, whatever creates and updates came before.
C1_CrossUserReadIsNotFound ==
    /\ \A u \in CallerIds, p \in PatientIds :
          (p \notin DOMAIN store \/ store[p].createdBy # u)
             => GetPatient(store, u, p, TRUE) = NotFound
    /\ (ret.op = "getPatient"
          /\ (ret.pid \notin DOMAIN store \/ store[ret.pid].createdBy # ret.user))
         => (ret.ok /\ ret.error = "" /\ ret.value = NotFound)

\* C1 witness: a getPatient by u2 has just answered for a record that u1
\* created and that has been updated since
C1_Witness ==
    /\ ret.op = "getPatient"
    /\ ret.pid \in DOMAIN store
    /\ store[ret.pid].createdBy # ret.user
    /\ store[ret.pid].lastModified > store[ret.pid].createdAt
    /\ ret.value = NotFound

\* C2: under every interleaving, an updatePatient, deactivatePatient or
\* reactivatePatient whose user id is not the record's creator never reaches
\* its updateDoc: the step that resumes it after getPatient ends the call
\* with an error and leaves the store as it was.
C2_NonOwnerCannotMutate ==
    [][\A s \in Slots :
          LET c == calls[s]
          IN (/\ c.pc = "getPatient"
              /\ calls'[s] # c
              /\ c.pid \in DOMAIN store
              /\ store[c.pid].createdBy # c.user)
             => (/\ calls'[s].pc = "done"
                 /\ calls'[s].error = "Failed to update patient: " \o NotFoundError
                 /\ store' = store)]_vars

\* C2 witness: a call by a user who did not create the record has thrown
\* while a call by the record's creator is waiting for its updateDoc
C2_Witness ==
    \E s, t \in Slots :
        /\ calls[s].pc = "done"
        /\ calls[s].pid \in DOMAIN store
        /\ store[calls[s].pid].createdBy # calls[s].user
        /\ calls[s].error = "Failed to update patient: " \o NotFoundError
        /\ calls[t].pc = "updateDoc"
        /\ calls[t].pid = calls[s].pid

\* C3: every record getPatients(userId, filters) returns was created by
\* userId, for every filter combination and every reachable store.
C3_ListOnlyOwnRecords ==
    /\ \A u \in Users, f \in AllFilters :
          LET patients == GetPatients(store, u, f, TRUE)
          IN \A i \in 1..Len(patients) : patients[i].createdBy = u
    /\ ret.op = "getPatients"
         => \A i \in 1..Len(ret.value) : ret.value[i].createdBy = ret.user

\* C3 witness: getPatients has returned a record while the store also holds
\* a record of another user
C3_Witness ==
    /\ ret.op = "getPatients"
    /\ Len(ret.value) >= 1
    /\ \E p \in DOMAIN store : store[p].createdBy # ret.user

(***************************************************************************)
(* Claims about the note-generation endpoint.  The transcripts, previous   *)
(* notes and snapshot fields of Bodies contain none of the section labels, *)
(* so a label found in the prompt was put there by the handler.            *)
(***************************************************************************)
\* the handler has composed a prompt and called the generator with it
Composed == pc # "idle" /\ genCalls >= 1

NonEmptyString(x) == IsStr(x) /\ x.v # ""

\* C4: a request whose transcript is the empty string or only whitespace is
\* answered with HTTP 400 'Transcript is required', and the generator is
\* never called for it.
C4_BlankTranscriptRejected ==
    (pc # "idle" /\ IsStr(body.transcript) /\ Trim(body.transcript.v) = "")
        => /\ genCalls = 0
           /\ pc = "responded"
           /\ resp.status = 400
           /\ resp.error = TranscriptRequired

\* C5: the block "PREVIOUS PATIENT NOTE:" followed by the previous note
\* verbatim is in the composed prompt if and only if the context is
\* 'hmhi-transfer' and a non-empty previous note was supplied; otherwise
\* neither the label nor the supplied previous note is anywhere in the prompt.
C5_PriorNoteOnlyForTransfer ==
    Composed =>
        IF body.context = Str("hmhi-transfer") /\ NonEmptyString(body.previousNote)
        THEN Includes(prompt, "\n\nPREVIOUS PATIENT NOTE:\n" \o body.previousNote.v \o "\n\n")
        ELSE /\ ~Includes(prompt, "PREVIOUS PATIENT NOTE:")
             /\ NonEmptyString(body.previousNote)
                    => ~Includes(prompt, body.previousNote.v)

\* C5 witness: a prompt composed for 'hmhi-transfer' with a previous note,
\* which the prompt contains
C5_Witness ==
    /\ Composed
    /\ body.context = Str("hmhi-transfer")
    /\ NonEmptyString(body.previousNote)
    /\ Includes(prompt, body.previousNote.v)

\* C6: for each of the six context keys the composed prompt begins with that
\* key's template, and for every other context (unrecognized or missing) it
\* begins with the 'hmhi-transfer' template.
C6_PromptBeginsWithTemplate ==
    Composed =>
        IF IsStr(body.context) /\ body.context.v \in DOMAIN CONTEXT_PROMPTS
        THEN StartsWith(prompt, CONTEXT_PROMPTS[body.context.v])
        ELSE StartsWith(prompt, CONTEXT_PROMPTS["hmhi-transfer"])

\* C7: with a patient snapshot the prompt has the patient block with the
\* name line and, for each of MRN, date of birth and gender, that field's
\* line if and only if the field is a non-empty string; without a snapshot
\* the prompt has no patient block and no field line.
C7_PatientBlockFields ==
    Composed =>
        LET snapshot == body.patientContext
            labels == {"\nMRN: ", "\nDate of Birth: ", "\nGender: "}
            field(l) ==
                CASE l = "\nMRN: " -> snapshot.v.patientMRN
                  [] l = "\nDate of Birth: " -> snapshot.v.patientDOB
                  [] OTHER -> snapshot.v.patientGender
        IN IF snapshot.t = "object"
           THEN /\ Includes(prompt, "\n\nPATIENT INFORMATION:\nName: "
                                      \o snapshot.v.patientName.v \o "\n")
                /\ \A l \in labels :
                      IF NonEmptyString(field(l))
                      THEN Includes(prompt, l \o field(l).v \o "\n")
                      ELSE ~Includes(prompt, l)
           ELSE /\ ~Includes(prompt, "PATIENT INFORMATION:")
                /\ ~Includes(prompt, "\nName: ")
                /\ \A l \in labels : ~Includes(prompt, l)

\* C7 witness: a prompt composed with a snapshot whose MRN is the empty
\* string and whose date of birth is set
C7_Witness ==
    /\ Composed
    /\ body.patientContext.t = "object"
    /\ body.patientContext.v.patientMRN = Str("")
    /\ NonEmptyString(body.patientContext.v.patientDOB)
    /\ Includes(prompt, "\nDate of Birth: ")

\* C8: the composed prompt is, in this order, one of the fixed templates,
\* the transcript section, the patient block if there is one, the
\* previous-note block if there is one, and the closing instruction, which
\* ends the prompt.
C8_SectionOrder ==
    Composed =>
        LET transcriptAt == IndexOf(prompt, "\n\nTRANSCRIPT:\n")
            patientAt == IndexOf(prompt, "\n\nPATIENT INFORMATION:\n")
            previousAt == IndexOf(prompt, "\n\nPREVIOUS PATIENT NOTE:\n")
            closingAt == IndexOf(prompt, "\n\nGenerate the clinical note now:")
        IN /\ \E k \in DOMAIN CONTEXT_PROMPTS :
                 /\ StartsWith(prompt, CONTEXT_PROMPTS[k])
                 /\ transcriptAt = Len(CONTEXT_PROMPTS[k])
           /\ patientAt >= 0 => transcriptAt < patientAt
           /\ previousAt >= 0 => transcriptAt < previousAt /\ patientAt < previousAt
           /\ closingAt > transcriptAt
           /\ closingAt > patientAt
           /\ closingAt > previousAt
           /\ closingAt = Len(prompt) - Len("\n\nGenerate the clinical note now:")

\* C9: the text directly after the label "TRANSCRIPT:" in the composed prompt
\* is the request's transcript, character for character, and the section
\* ends there.
C9_TranscriptVerbatim ==
    (Composed /\ IsStr(body.transcript)) =>
        LET label == "\n\nTRANSCRIPT:\n"
            at == IndexOf(prompt, label)
        IN /\ at >= 0
           /\ StartsWith(SubSeq(prompt, at + Len(label) + 1, Len(prompt)),
                         body.transcript.v \o "\n\n")

\* C9 witness: a prompt composed from a transcript with leading and trailing
\* whitespace, markup and quotes
C9_Witness ==
    /\ Composed
    /\ IsStr(body.transcript)
    /\ Trim(body.transcript.v) # body.transcript.v
    /\ Includes(body.transcript.v, "<b>")
    /\ Includes(prompt, body.transcript.v)

\* C10: the generator is called at most once for a request; a step taken
\* while the call is in flight ends the request without another call, and a
\* response that is not the note is HTTP 500 'Failed to generate note'.
C10_SingleAttempt ==
    /\ [](genCalls <= 1)
    /\ [][pc = "generating" =>
            /\ pc' = "responded"
            /\ genCalls' = genCalls
            /\ resp'.status # 200 =>
                  resp' = ErrorResponse(500, GenerationFailed)]_vars
    /\ [][pc = "responded" => genCalls' <= genCalls]_vars

\* C10 witness: the generator was called once, the call failed and the
\* request was answered with the generic failure
C10_Witness ==
    /\ pc = "responded"
    /\ genCalls = 1
    /\ resp = ErrorResponse(500, GenerationFailed)

\* a transcript the specification accepts: a string that is not blank
ValidTranscript(x) == IsStr(x) /\ Trim(x.v) # ""

\* C11: a request with a valid transcript received while the generator
\* credential is not configured is answered with HTTP 500 and a message that
\* is not the validation message, and the generator is not called.
C11_MissingKeyIsServerError ==
    (pc # "idle" /\ ValidTranscript(body.transcript) /\ ~Truthy(apiKey))
        => /\ pc = "responded"
           /\ genCalls = 0
           /\ resp.status = 500
           /\ resp.error # ""
           /\ resp.error # TranscriptRequired

\* C11 witness: such a request has been answered while the credential is
\* the empty string
C11_Witness ==
    /\ pc = "responded"
    /\ ValidTranscript(body.transcript)
    /\ apiKey = Str("")
    /\ resp.status = 500

\* C12: a success response carries as its note exactly the text the
\* generator returned, whatever that text is (empty, or with surrounding
\* whitespace and markup).
C12_NoteVerbatim ==
    (pc = "responded" /\ resp.status = 200)
        => /\ IsStr(generated)
           /\ resp.note = generated.v
           /\ resp.error = ""

\* C12 witness: a success response whose note has surrounding whitespace
C12_Witness ==
    /\ pc = "responded"
    /\ resp.status = 200
    /\ IsStr(generated)
    /\ Trim(generated.v) # generated.v
    /\ resp.note = generated.v

\* C13: the patientContext of a success response is the snapshot the request
\* carried (null when it carried none), the prompt's patient block shows the
\* snapshot's fields, and neither the request's snapshot nor the prompt
\* changes while the request is handled, whatever happens to the record.
C13_SnapshotNotLiveRecord ==
    /\ []((pc = "responded" /\ resp.status = 200) =>
            resp.patientContext =
                IF body.patientContext.t = "object" THEN body.patientContext
                ELSE JsNull)
    /\ []((Composed /\ body.patientContext.t = "object") =>
            /\ Includes(prompt, "\nName: " \o body.patientContext.v.patientName.v \o "\n")
            /\ NonEmptyString(body.patientContext.v.patientMRN) =>
                  Includes(prompt, "\nMRN: " \o body.patientContext.v.patientMRN.v \o "\n"))
    /\ [][(pc # "idle" /\ pc' # "idle") => (body' = body /\ prompt' = prompt)]_vars
    /\ [][pc = "responded" /\ pc' = "responded" => resp' = resp]_vars

\* C13 witness: a success response for a request with a snapshot, while the
\* patient record now has another name than the snapshot
C13_Witness ==
    /\ pc = "responded"
    /\ resp.status = 200
    /\ body.patientContext.t = "object"
    /\ resp.patientContext = body.patientContext
    /\ \E p \in DOMAIN store :
          /\ ToString(p) = body.patientContext.v.patientId.v
          /\ store[p].name # body.patientContext.v.patientName.v

\* C14: an error response is one of three fixed bodies, chosen by the kind
\* of error alone: it is the same for every transcript, previous note and
\* patient snapshot, and contains none of them.
C14_ErrorsAreFixedMessages ==
    (pc = "responded" /\ resp.status # 200) =>
        LET sent == { body.transcript, body.previousNote }
                      \cup (IF body.patientContext.t = "object"
                            THEN { body.patientContext.v.patientName,
                                   body.patientContext.v.patientMRN,
                                   body.patientContext.v.patientDOB }
                            ELSE {})
        IN /\ resp \in { ErrorResponse(400, "Transcript is required"),
                         ErrorResponse(500, "Gemini API key not configured"),
                         ErrorResponse(500, "Failed to generate note") }
           /\ genCalls >= 1 => resp = ErrorResponse(500, "Failed to generate note")
           /\ (genCalls = 0 /\ Truthy(body.transcript))
                 => resp = ErrorResponse(500, "Gemini API key not configured")
           /\ (body # NoBody /\ ~Truthy(body.transcript))
                 => resp = ErrorResponse(400, "Transcript is required")
           /\ \A x \in sent : NonEmptyString(x) => ~Includes(resp.error, x.v)

\* C14 witness: the generator failed for a request that carried a transcript,
\* a previous note and a full patient snapshot
C14_Witness ==
    /\ pc = "responded"
    /\ resp = ErrorResponse(500, "Failed to generate note")
    /\ ValidTranscript(body.transcript)
    /\ NonEmptyString(body.previousNote)
    /\ body.patientContext.t = "object"
    /\ NonEmptyString(body.patientContext.v.patientMRN)

\* the filters of a listing of active records
ActiveFilters == { f \in AllFilters : f.status = Str("active") }

C16_StatusStateMachine ==
    /\ [](\A p \in DOMAIN store : store[p].status \in {"active", "inactive"})
    /\ [][\A p \in DOMAIN store' \ DOMAIN store : store'[p].status = "active"]_vars
    /\ [][(store' # store /\ ret'.op \in {"deactivatePatient", "reactivatePatient"})
             => /\ store[ret'.pid].createdBy = ret'.user
                /\ store'[ret'.pid].status =
                      IF ret'.op = "deactivatePatient" THEN "inactive" ELSE "active"]_vars
    /\ [](\A p \in DOMAIN store, op \in {"deactivatePatient", "reactivatePatient"} :
            LET updates == UpdatesOf(op, NoUpdates)
            IN /\ UpdateError(store, store[p].createdBy, p, updates, TRUE) = ""
               /\ Written(store, p, updates, clock + 1)[p].status =
                     IF op = "deactivatePatient" THEN "inactive" ELSE "active")

\* C16 witness: the owner has reactivated a record that was inactive
C16_Witness ==
    /\ ret.op = "reactivatePatient"
    /\ ret.ok
    /\ store[ret.pid].status = "active"
    /\ store[ret.pid].lastModified >= store[ret.pid].createdAt + 2

OptionalFields == {"mrn", "dob", "gender"}

C18_CreateRejectsBlankName ==
    /\ [](\A userId \in CallerIds, d \in CreateInputs :
            /\ (~IsStr(d.name) \/ Trim(d.name.v) = "")
                  => CreateError(userId, d) = "Patient name is required"
            /\ (IsStr(d.name) /\ Trim(d.name.v) # "" /\ userId = "")
                  => CreateError(userId, d) = "User ID is required for patient creation")
    /\ []((ret.op = "createPatient" /\ ~ret.ok) =>
            ret.error \in { "Failed to create patient: Patient name is required",
                            "Failed to create patient: User ID is required for patient creation",
                            "Failed to create patient: " \o StoreError })
    /\ [][(ret'.op = "createPatient" /\ ~ret'.ok) => store' = store]_vars
    /\ [](\A p \in DOMAIN store :
            Trim(store[p].name) # "" /\ store[p].createdBy # "")

\* C18 witness: a createPatient was refused for its name while the store
\* already held a record
C18_Witness ==
    /\ ret.op = "createPatient"
    /\ ~ret.ok
    /\ ret.error = "Failed to create patient: Patient name is required"
    /\ DOMAIN store # {}

\* C19: the id, createdAt and lastModified of the record createPatient
\* returns are those stored for it, that is, those of the record a following
\* getPatient by the owner returns.
C19_CreateReturnsStoredTimestamps ==
    (ret.op = "createPatient" /\ ret.ok) =>
        LET got == GetPatient(store, ret.user, ret.pid, TRUE)
        IN /\ got # NotFound
           /\ got.v.id = ret.value.id
           /\ got.v.createdAt = ret.value.createdAt
           /\ got.v.lastModified = ret.value.lastModified

\* the fields of a patient document a caller can set
SettableFields == {"name", "mrn", "dob", "gender", "status"}

\* the value of field f of document doc, Undefined when the field is absent
FieldOf(doc, f) == IF f \in DOMAIN doc THEN Str(doc[f]) ELSE Undefined

\* C20: when an updatePatient writes, every one of name, mrn, dob, gender and
\* status that its updates argument omits has after the write the value (or
\* the absence) it had before, and no other document changes.
C20_UpdateKeepsOmittedFields ==
    [][\A s \in Slots :
          (calls[s].pc = "updateDoc" /\ calls'[s].pc = "done" /\ store' # store) =>
              /\ \A f \in SettableFields :
                    calls[s].updates[f] = Undefined =>
                        FieldOf(store'[calls[s].pid], f) = FieldOf(store[calls[s].pid], f)
              /\ \A p \in DOMAIN store \ {calls[s].pid} : store'[p] = store[p]
              /\ DOMAIN store' = DOMAIN store]_vars

\* C20 witness: an updatePatient that gave only a name has returned; the
\* record has the new name and still its mrn, dob and gender
C20_Witness ==
    \E s \in Slots :
        /\ calls[s].pc = "done"
        /\ calls[s].error = ""
        /\ store[calls[s].pid].name = "Al"
        /\ store[calls[s].pid].mrn = "M1"
        /\ store[calls[s].pid].dob = "1990-01-01"
        /\ store[calls[s].pid].gender = "male"

\* does the record contain the search term in its name or MRN, ignoring case?
ContainsTerm(patient, term) ==
    \/ Includes(ToLowerCase(patient.name), ToLowerCase(term))
    \/ "mrn" \in DOMAIN patient /\ Includes(ToLowerCase(patient.mrn), ToLowerCase(term))

\* is the list in the order of the field, in the direction given?
InOrder(list, field, direction) ==
    \A i \in 1..(Len(list) - 1) :
        LET a == IF direction = "asc" THEN list[i][field] ELSE list[i + 1][field]
            b == IF direction = "asc" THEN list[i + 1][field] ELSE list[i][field]
        IN a = b \/ (IF field = "name" THEN StrLess(a, b) ELSE a < b)

\* C21: for every user and filter combination getPatients returns, once
\* each, the user's records of the given status (all when none is given)
\* whose name or MRN contains the trimmed search term ignoring case (all when
\* none is given), in the order of the sort field and direction, by default
\* lastModified descending; with a search term the list is the list without
\* it, thinned out, in the same order.
C21_ListFilteredAndOrdered ==
    \A userId \in Users, f \in AllFilters :
        LET list == GetPatients(store, userId, f, TRUE)
            unsearched == GetPatients(store, userId, [f EXCEPT !.searchTerm = Undefined], TRUE)
            field == IF f.sortBy = Undefined THEN "lastModified" ELSE f.sortBy.v
            direction == IF f.sortOrder = Undefined THEN "desc" ELSE f.sortOrder.v
            Wanted(p) ==
                /\ p.createdBy = userId
                /\ f.status # Undefined => p.status = f.status.v
                /\ f.searchTerm # Undefined => ContainsTerm(p, Trim(f.searchTerm.v))
        IN /\ { list[i].id : i \in 1..Len(list) }
                 = { q \in DOMAIN store : Wanted(PatientOf(q, store[q])) }
           /\ \A i, j \in 1..Len(list) : list[i].id = list[j].id => i = j
           /\ \A i \in 1..Len(list) : list[i] = PatientOf(list[i].id, store[list[i].id])
           /\ InOrder(list, field, direction)
           /\ list = SelectSeq(unsearched, Wanted)

\* C21 witness: a listing with the default order has returned two records,
\* the later modified one first, and a search for the same user keeps only
\* one of them
C21_Witness ==
    /\ ret.op = "getPatients"
    /\ Len(ret.value) = 2
    /\ ret.value = GetPatients(store, ret.user, NoFilters, TRUE)
    /\ ret.value[1].lastModified > ret.value[2].lastModified
    /\ Len(GetPatients(store, ret.user, [NoFilters EXCEPT !.searchTerm = Str(" M ")], TRUE)) = 1

\* C22: when two updatePatient calls by the owner on the same record, giving
\* different fields, have both returned without error, the record holds the
\* value of each call's field, in whichever order their reads and writes
\* were interleaved.
C22_DisjointUpdatesBothApply ==
    \A s, t \in Slots :
        (/\ s # t
         /\ calls[s].pc = "returned" /\ calls[s].error = ""
         /\ calls[t].pc = "returned" /\ calls[t].error = ""
         /\ calls[s].pid = calls[t].pid)
        => \A f \in Provided(calls[s].updates) :
              FieldOf(store[calls[s].pid], f) = Str(Trim(calls[s].updates[f].v))

\* C22 witness: two calls, one giving a name and one an mrn, have both
\* returned without error and the record holds the new name and the new mrn
C22_Witness ==
    /\ \A s \in Slots : calls[s].pc = "returned" /\ calls[s].error = ""
    /\ \E s \in Slots : calls[s].updates.name # Undefined
    /\ \E s \in Slots : calls[s].updates.mrn # Undefined
    /\ store[1].name = "Al"
    /\ store[1].mrn = "M2"

(***************************************************************************)
(* Claims about the auth provider and its session timer.                   *)
(***************************************************************************)
\* the later of the session's start and the last user-activity event
QuietSince == IF lastActivity > session.start THEN lastActivity ELSE session.start

\* the timers that changed from pending to fired in a step
FiredIn(before, after) ==
    {i \in Pending(before) : after[i].state = "fired"}

C24_ActivityResetsTimer ==
    [][/\ Cardinality(Pending(timers')) <= 1
       /\ (lastActivity' # lastActivity /\ session.uid # NoUser)
             => /\ Pending(timers) \cap Pending(timers') = {}
                /\ \E i \in Pending(timers') : timers'[i].due = TimerDue(time)
       /\ FiredIn(timers, timers') # {}
             => time >= lastActivity + SessionTimeout]_vars

\* C25: sign-out cancels the session timer: once a sign-out has completed,
\* and once the provider has unmounted, no session timer is pending, and no
\* timer fires for a session that is already signed out.
C25_SignOutCancelsTimer ==
    [][/\ (authUser # NoUser /\ authUser' = NoUser) => Pending(timers') = {}
       /\ ~mounted' => Pending(timers') = {}
       /\ FiredIn(timers, timers') # {} => authUser # NoUser]_vars

\* C29: the listener never finds the profile of a user who is signing up or
\* has signed up missing, and once a successful signUp and the listener have
\* run to their end, with no sign-out asked for, the new user is signed in
\* and their profile is the context's user.
C29_SignUpEndsSignedIn ==
    /\ \A l \in loads :
          l.pc = "signOut" => ~(signup.pc \in {"profile", "done"} /\ signup.uid = l.uid)
    /\ (/\ signup.pc = "done"
        /\ mounted
        /\ notices = <<>>
        /\ loads = {}
        /\ \A i \in 1..Len(timers) : timers[i].state = "pending")
         => (authUser = signup.uid /\ ctxUser = signup.uid)

\* C30: once the listener has received every auth state change and the auth
\* state is signed-out, the context's user is null.
C30_SignedOutClearsUser ==
    (mounted /\ authUser = NoUser /\ notices = <<>> /\ loads = {})
       => ctxUser = NoUser

(***************************************************************************)
(* Further claims about the endpoint and the patient directory.            *)
(***************************************************************************)
\* C26: for a context key that is none of the six known ones the prompt
\* begins with the 'hmhi-transfer' template and has no prior-note block,
\* whether or not a prior note was supplied.
C26_UnknownKeyTransferWithoutPriorNote ==
    (Composed /\ IsStr(body.context) /\ body.context.v \notin DOMAIN CONTEXT_PROMPTS)
       => /\ StartsWith(prompt, CONTEXT_PROMPTS["hmhi-transfer"])
          /\ ~Includes(prompt, PreviousNoteLabel)

C28_IdentityAndOwnerFixed ==
    [][\A p \in DOMAIN store :
          /\ p \in DOMAIN store'
          /\ PatientOf(p, store'[p]).id = PatientOf(p, store[p]).id
          /\ store'[p].createdBy = store[p].createdBy
          /\ store'[p].createdAt = store[p].createdAt]_vars

\* C28 witness: a record has been edited and then deactivated after another
\* record was created, and it still has its owner and its creation time
C28_Witness ==
    /\ ret.op = "deactivatePatient"
    /\ ret.ok
    /\ Cardinality(DOMAIN store) >= 2
    /\ store[ret.pid].status = "inactive"
    /\ store[ret.pid].createdBy = ret.user
    /\ store[ret.pid].createdAt < store[ret.pid].lastModified

====
